---- MODULE Spec2Model ----
(***************************************************************************)
(* RateLimitService of @shinijs/rate-limit: the sliding-window rate limit  *)
(* engine with a Redis sorted-set backend and an in-memory fallback.       *)
(*                                                                         *)
(* Time is in milliseconds.  A window string is a tuple of one-character   *)
(* strings (<<"1","s">> is '1s').  A member of a Redis sorted set is the   *)
(* pair <<score, rank>>: it stands for the string `${now}-${Math.random()}` *)
(* and rank is the place its random part takes among the members of the    *)
(* same score, which is the order the set keeps them in.                   *)
(*                                                                         *)
(* Spec is the engine with its handlers as atomic steps and a store that   *)
(* answers a batch or fails it.  SpecStepErrors adds batches in which the  *)
(* store refuses one command, SpecCallers splits the pipelines of two      *)
(* callers into their commands, SpecConfig starts from an unset or empty   *)
(* REDIS_URL.                                                              *)
(***************************************************************************)
EXTENDS Integers, Sequences, FiniteSets, TLC

\* ---------------------------------------------------------------- bounds
Step == 1000            \* the clock advances in steps of Step ms
MaxTicks == 2           \* number of clock steps explored
MaxHits == 2            \* hits held by the two backends together
MaxRequests == 2        \* largest options.requests explored
MaxAmount == 20         \* largest amount of the window strings parsed alone
MaxDestroys == 2        \* shutdowns explored on an engine that holds a client
MaxEmissions == 2       \* values a handler's response stream emits at most
MaxChecks == 4          \* checks of which the engine's history is kept

AllKeys == {"a", "b"}   \* the keys of the stores
Keys == {"a"}           \* the keys the calls of Spec are made on
\* window strings that parse, and strings that do not: '5x', '5', '' and
\* 'invalid'
GoodWindows == { <<"1", "s">>, <<"2", "s">> }
BadWindows == { <<"5", "x">>, <<"5">>, <<>>,
                <<"i", "n", "v", "a", "l", "i", "d">> }
Windows == GoodWindows \cup BadWindows
Requests == 0..MaxRequests

\* ------------------------------------------------------------- constants
CleanupThreshold == 1000

\* --------------------------------------------------------------- helpers
Max(a, b) == IF a >= b THEN a ELSE b

Digits == {"0", "1", "2", "3", "4", "5", "6", "7", "8", "9"}

DigitVal(c) ==
  CASE c = "0" -> 0 [] c = "1" -> 1 [] c = "2" -> 2 [] c = "3" -> 3
    [] c = "4" -> 4 [] c = "5" -> 5 [] c = "6" -> 6 [] c = "7" -> 7
    [] c = "8" -> 8 [] c = "9" -> 9

\* a table whose minute is sixty milliseconds
units_ShortMinute(u) ==
  CASE u = "s" -> 1000
    [] u = "m" -> 60
    [] u = "h" -> 60 * 60 * 1000
    [] u = "d" -> 24 * 60 * 60 * 1000

units(u) ==
  CASE u = "s" -> 1000
    [] u = "m" -> 60 * 1000
    [] u = "h" -> 60 * 60 * 1000
    [] u = "d" -> 24 * 60 * 60 * 1000

\* window.match(/^(\d+)([smhd])$/)
WindowMatch(window) ==
  /\ Len(window) >= 2
  /\ \A i \in 1..(Len(window) - 1) : window[i] \in Digits
  /\ window[Len(window)] \in {"s", "m", "h", "d"}

RECURSIVE parseInt(_)
parseInt(ds) ==
  IF Len(ds) = 0 THEN 0
  ELSE 10 * parseInt(SubSeq(ds, 1, Len(ds) - 1)) + DigitVal(ds[Len(ds)])

\* the value parseWindow returns when the string matches (it throws otherwise)
parseWindow(window) ==
  parseInt(SubSeq(window, 1, Len(window) - 1)) * units(window[Len(window)])

\* an error that does not say which string was refused
InvalidWindowError_NoString(window) == <<"Invalid window format", <<>> >>

\* the Error of line 219: its message carries the string that was refused
InvalidWindowError(window) == <<"Invalid window format", window>>

\* Math.ceil(windowMs / 1000)
CeilSeconds(windowMs) == (windowMs + 999) \div 1000

\* ------------------------------------------------------------------ maps
EmptyMap == [k \in {} |-> <<>>]
\* a set that keeps no other key
MapSet_Only(m, k, v) == [x \in {k} |-> v]

\* fallbackStorage.set(key, value)
MapSet(m, k, v) == [x \in (DOMAIN m) \cup {k} |-> IF x = k THEN v ELSE m[x]]
\* a delete that leaves the key mapped to an empty history
MapDelete_LeavesEmpty(m, k) == [x \in DOMAIN m |-> IF x = k THEN <<>> ELSE m[x]]

\* fallbackStorage.delete(key)
MapDelete(m, k) == [x \in (DOMAIN m) \ {k} |-> m[x]]
MapGet(m, k) == IF k \in DOMAIN m THEN m[k] ELSE <<>>

NoResult == [allowed |-> FALSE, remaining |-> 0, resetTime |-> 0, totalHits |-> 0]

NoOp ==
  [op |-> "none", key |-> "", requests |-> 0, window |-> <<>>, now |-> 0,
   handle |-> "null", reply |-> "none", path |-> "none", threw |-> FALSE,
   error |-> <<>>, healthy |-> FALSE, windowMs |-> 0,
   result |-> NoResult, preLocal |-> <<>>, preZset |-> {},
   afterDecrement |-> FALSE]

NoRun == [n |-> 0, start |-> 0, requests |-> 0, windowMs |-> 0,
          path |-> "none", pure |-> TRUE]

\* the callers whose pipelines are in the store at the same time
Callers == {"A", "B"}

\* no pipeline in flight; pc is the command the store applies next
NoBatch == [pc |-> "idle", key |-> "", requests |-> 0, window |-> <<>>,
            now |-> 0, count |-> 0, interleaved |-> FALSE]

\* the HTTP requests in flight
Reqs == {"r1", "r2"}

\* getAllAndOverride gives undefined: the route has no rate-limit metadata
NoMeta == [present |-> FALSE, requests |-> 0, window |-> <<>>,
           skipSuccessfulRequests |-> FALSE, skipFailedRequests |-> FALSE]

\* a request that has not reached the guard. pc is where it stands, checks
\* and decrements count the calls made on the service for it, outcome is
\* what canActivate gave, hits is the number of hits its check recorded,
\* emitted the number of values its response stream has emitted, status the
\* status code last handed to handleResponse
NoRequest == [pc |-> "new", options |-> NoMeta, checks |-> 0,
              outcome |-> "none", hits |-> 0, emitted |-> 0, status |-> 0,
              decrements |-> 0]

\* no Express request is looked at; "" stands for undefined in ip,
\* remoteAddress and routePath, keyGenerator names the function of the
\* options, guardKey and interceptorKey are the keys made so far
NoExpress == [ip |-> "", remoteAddress |-> "", routePath |-> "",
              path |-> "", keyGenerator |-> "none",
              guardKey |-> <<>>, interceptorKey |-> <<>>]

\* no decrement under way; pc is the step the caller takes next and entries
\* what its zrevrange has read
\* no decrement under way. pc is the await the call stands at, entries
\* what zrevrange gave it, held the size of the set when it read, removed
\* the number of members its zrem took out
NoPending == [pc |-> "idle", key |-> "", entries |-> <<>>, held |-> 0,
              removed |-> 0]

\* the values of REDIS_URL: not set, set to the empty string, set to a URL
RedisUrls == {"undefined", "", "redis://localhost:6379"}

\* a test of the descriptor that only looks for null
UrlAbsent_OnlyNull(url) == url = "null"

\* redisUrl === null || redisUrl === undefined, line 39
UrlAbsent(url) == url = "undefined"

VARIABLES
  now,              \* Date.now()
  redis,            \* this.redis: "null" or "client"
  initPc,           \* position of initializeRedis
  fallbackStorage,  \* this.fallbackStorage: key -> list of timestamps
  zset,             \* the Redis sorted set of each key
  ttl,              \* the time at which Redis expires each key, -1 for none
  last,             \* the call that has just completed
  run,              \* per key: the current series of checks in one window
  batch,            \* per caller: the pipeline it has sent to the store
  redisUrl,         \* configService.get('REDIS_URL')
  disconnects,      \* the calls of disconnect() made on the client
  req,              \* the HTTP requests passing the guard and the interceptor
  request,          \* an Express request and the keys made from it
  history,          \* the checks made on the engine so far, oldest first
  pending           \* per caller: the decrement it has under way

vars == <<now, redis, initPc, fallbackStorage, zset, ttl, last, run, batch,
          redisUrl, disconnects, req, request, history, pending>>

\* ------------------------------------------------- the Redis sorted sets
\* a range removal that spares the members scored exactly hi
ZRemRangeByScore_Exclusive(z, lo, hi) == {m \in z : ~(m[1] >= lo /\ m[1] < hi)}

ZRemRangeByScore(z, lo, hi) == {m \in z : ~(m[1] >= lo /\ m[1] <= hi)}
\* the places the random part of a new member of this score can take
Ranks(z, score) == 1..(Cardinality({m \in z : m[1] = score}) + 1)

\* an insert that does not reach the set
ZAdd_Dropped(z, score, tie) == z

\* zadd of a new member that takes place tie among those of its score
ZAdd(z, score, tie) ==
  {IF m[1] = score /\ m[2] >= tie THEN <<m[1], m[2] + 1>> ELSE m : m \in z}
    \cup {<<score, tie>>}
ZCard(z) == Cardinality(z)
\* the order of a sorted set: by score, then by member
ZLess(m1, m2) == m1[1] < m2[1] \/ (m1[1] = m2[1] /\ m1[2] < m2[2])

\* a removal that reaches no member
ZRem_Noop(z, member) == z

ZRem(z, member) ==
  {IF m[1] = member[1] /\ m[2] > member[2] THEN <<m[1], m[2] - 1>> ELSE m :
     m \in z \ {member}}

\* zrange in place of zrevrange: the lowest entry
ZRevRange0_Lowest(z) ==
  IF z = {} THEN <<>>
  ELSE LET low == CHOOSE m \in z : \A o \in z : o = m \/ ZLess(m, o)
       IN <<low, low[1]>>

\* zrevrange(key, 0, 0, 'WITHSCORES'): <<member, score>> of the highest entry
ZRevRange0(z) ==
  IF z = {} THEN <<>>
  ELSE LET top == CHOOSE m \in z : \A o \in z : o = m \/ ZLess(o, m)
       IN <<top, top[1]>>

\* an expiry that falls one second short
ExpireAt_Short(nw, seconds) == nw + (seconds - 1) * 1000

\* expire(key, seconds) issued at time nw: the time the key is dropped at
ExpireAt(nw, seconds) == nw + seconds * 1000

\* the batch with zcard queued before zadd
Pipeline_CountBeforeAdd(z, nw, windowStart, windowMs, tie) ==
  LET pruned == ZRemRangeByScore(z, 0, windowStart)
      added == ZAdd(pruned, nw, tie)
      seconds == CeilSeconds(windowMs)
  IN [count |-> ZCard(pruned),
      z |-> IF seconds <= 0 THEN {} ELSE added,
      ttl |-> IF seconds <= 0 THEN -1 ELSE ExpireAt(nw, seconds)]

\* the four commands of the pipeline, lines 115-127, applied to one key
Pipeline(z, nw, windowStart, windowMs, tie) ==
  LET pruned == ZRemRangeByScore(z, 0, windowStart)
      added == ZAdd(pruned, nw, tie)
      seconds == CeilSeconds(windowMs)
  IN [count |-> ZCard(added),
      z |-> IF seconds <= 0 THEN {} ELSE added,
      ttl |-> IF seconds <= 0 THEN -1 ELSE ExpireAt(nw, seconds)]

\* the replies of exec() in which one command other than zcard carries an
\* error (its entry of the results is [err, null]) and the others ran
StepErrors == {"pruneErr", "insertErr", "expireErr"}

\* the pipeline when the store refuses one of its commands: that command
\* has no effect, the other three are applied in order
PipelineStepError(z, t, nw, windowStart, windowMs, tie, failed) ==
  LET pruned == IF failed = "pruneErr" THEN z
                ELSE ZRemRangeByScore(z, 0, windowStart)
      added == IF failed = "insertErr" THEN pruned ELSE ZAdd(pruned, nw, tie)
      seconds == CeilSeconds(windowMs)
      expires == failed # "expireErr" /\ added # {}
  IN [count |-> ZCard(added),
      z |-> IF expires /\ seconds <= 0 THEN {} ELSE added,
      ttl |-> IF added = {} \/ (expires /\ seconds <= 0) THEN -1
              ELSE IF expires THEN ExpireAt(nw, seconds) ELSE t]

\* ------------------------------------------------ the local-memory backend
\* a filter that keeps the timestamp lying exactly at the window start
InWindow_Inclusive(t, windowStart) == t >= windowStart

\* the filter of lines 166 and 200: the timestamps a window still holds
InWindow(t, windowStart) == t > windowStart

cleanupFallbackStorage(storage, windowStart) ==
  LET live(k) == SelectSeq(storage[k], LAMBDA t : InWindow(t, windowStart))
      kept == {k \in DOMAIN storage : Len(live(k)) # 0}
  IN [k \in kept |-> live(k)]

\* a limit that is reached one hit early
fallbackResult_StrictLimit(hits, options, nw, windowMs) ==
  [allowed |-> hits < options.requests,
   remaining |-> Max(0, options.requests - hits),
   resetTime |-> nw + windowMs,
   totalHits |-> hits]

\* lines 175-178 and 190-195
fallbackResult(hits, options, nw, windowMs) ==
  [allowed |-> hits <= options.requests,
   remaining |-> Max(0, options.requests - hits),
   resetTime |-> nw + windowMs,
   totalHits |-> hits]

\* a fallback that stores the hit of an allowed call only
fallbackRateLimit_SkipDenied(storage, key, options, nw) ==
  LET windowMs == parseWindow(options.window)
      windowStart == nw - windowMs
      timestamps == MapGet(storage, key)
      validTimestamps ==
        Append(SelectSeq(timestamps, LAMBDA t : InWindow(t, windowStart)), nw)
      hits == Len(validTimestamps)
  IN [storage |-> IF hits <= options.requests
                  THEN MapSet(storage, key, validTimestamps)
                  ELSE storage,
      result |-> fallbackResult(hits, options, nw, windowMs)]

\* the fallback that tracks nothing and allows every call
fallbackRateLimit_AlwaysAllow(storage, key, options, nw) ==
  [storage |-> storage,
   result |-> [allowed |-> TRUE, remaining |-> options.requests,
               resetTime |-> nw + parseWindow(options.window),
               totalHits |-> 0]]

\* a fallback that writes back a list read before the other writers wrote
fallbackRateLimit_LostUpdate(storage, key, options, nw) ==
  [storage |-> MapSet(storage, key, <<nw>>),
   result |-> fallbackResult(1, options, nw, parseWindow(options.window))]

\* lines 154-196: one synchronous function, no await between the read of
\* the list and its write
fallbackRateLimit(storage, key, options, nw) ==
  LET windowMs == parseWindow(options.window)
      windowStart == nw - windowMs
      timestamps == MapGet(storage, key)
      validTimestamps ==
        Append(SelectSeq(timestamps, LAMBDA t : InWindow(t, windowStart)), nw)
      stored == MapSet(storage, key, validTimestamps)
      hits == Len(validTimestamps)
  IN [storage |-> IF Cardinality(DOMAIN stored) > CleanupThreshold
                  THEN cleanupFallbackStorage(stored, windowStart)
                  ELSE stored,
      result |-> fallbackResult(hits, options, nw, windowMs)]

\* ------------------------------------------------ the shared-store backend
\* reply is what pipeline.exec() gives back: "ok" (four results), "reject"
\* (the promise rejects), "null" (no results) or "countErr" (the zcard
\* entry carries an error).  applied tells whether the commands of a failed
\* batch took effect in the store.
\* the error entry of zcard is not looked at
PipelineThrows_NoCountCheck(reply) == reply \in {"reject", "null"}

\* lines 129-139: exec() rejects, or gives no results, or the entry of
\* zcard carries an error
PipelineThrows(reply) == reply \in {"reject", "null", "countErr"}

\* remaining without the clamp at zero
redisResult_NoClamp(reply, count, options, nw, windowMs) ==
  LET hits == IF reply = "ok" THEN count ELSE 0
  IN [allowed |-> hits <= options.requests,
      remaining |-> options.requests - hits,
      resetTime |-> nw + windowMs,
      totalHits |-> hits]

\* lines 141-151; hits is (totalHits as number) || 0
redisResult(reply, count, options, nw, windowMs) ==
  LET hits == IF reply \in {"ok"} \cup StepErrors THEN count ELSE 0
  IN [allowed |-> hits <= options.requests,
      remaining |-> Max(0, options.requests - hits),
      resetTime |-> nw + windowMs,
      totalHits |-> hits]

redisRateLimit(z, t, options, nw, windowStart, windowMs, reply, applied, tie) ==
  LET p == IF reply \in StepErrors
           THEN PipelineStepError(z, t, nw, windowStart, windowMs, tie, reply)
           ELSE Pipeline(z, nw, windowStart, windowMs, tie)
      took == reply \in {"ok"} \cup StepErrors \/ applied
  IN [z |-> IF took THEN p.z ELSE z,
      ttl |-> IF took THEN p.ttl ELSE t,
      threw |-> PipelineThrows(reply),
      result |-> redisResult(reply, p.count, options, nw, windowMs)]

\* ------------------------------------------------------------------ ghost
\* hits of a key that a check with this windowStart would still count
LiveLocal(timestamps, windowStart) ==
  SelectSeq(timestamps, LAMBDA t : t > windowStart)
LiveZset(z, windowStart) == {m \in z : m[1] > windowStart}

\* the series of checks of one key: it goes on while the policy is the same
\* and the check falls inside the window opened by the first check of the
\* series; it starts anew when the key holds no live hit in either backend,
\* and it ends with a check whose batch had a command refused
NextRun(r, key, options, windowMs, path) ==
  IF /\ r.n > 0
     /\ r.requests = options.requests
     /\ r.windowMs = windowMs
     /\ now - r.start < windowMs
  THEN [r EXCEPT !.n = r.n + 1, !.pure = r.pure /\ r.path = path]
  ELSE IF /\ Len(LiveLocal(MapGet(fallbackStorage, key), now - windowMs)) = 0
          /\ LiveZset(zset[key], now - windowMs) = {}
       THEN [n |-> 1, start |-> now, requests |-> options.requests,
             windowMs |-> windowMs, path |-> path, pure |-> TRUE]
       ELSE NoRun

\* ---------------------------------------------------------------- actions
\* the state after the constructor, with REDIS_URL one of urls:
\* initializeRedis has returned at line 43 or waits for import('ioredis')
InitWith(urls) ==
  /\ now = 0
  /\ redis = "null"
  /\ redisUrl \in urls
  /\ initPc = IF UrlAbsent(redisUrl) THEN "skipped" ELSE "importing"
  /\ fallbackStorage = EmptyMap
  /\ zset = [k \in AllKeys |-> {}]
  /\ ttl = [k \in AllKeys |-> -1]
  /\ run = [k \in AllKeys |-> NoRun]
  /\ batch = [c \in Callers |-> NoBatch]
  /\ disconnects = 0
  /\ req = [r \in Reqs |-> NoRequest]
  /\ request = NoExpress
  /\ history = <<>>
  /\ pending = [c \in Callers |-> NoPending]

\* REDIS_URL is not set, or it is set to a URL; no call has been made
Init == InitWith(RedisUrls \ {""}) /\ last = NoOp

\* REDIS_URL is not set, or it is set to the empty string
InitConfig ==
  InitWith(RedisUrls \ {"redis://localhost:6379"}) /\ last = NoOp

\* time passes; Redis drops the keys whose expiry time has come
Tick ==
  /\ now + Step <= MaxTicks * Step
  /\ now' = now + Step
  /\ zset' = [k \in AllKeys |->
                IF ttl[k] # -1 /\ ttl[k] <= now + Step THEN {} ELSE zset[k]]
  /\ ttl' = [k \in AllKeys |->
                IF ttl[k] # -1 /\ ttl[k] <= now + Step THEN -1 ELSE ttl[k]]
  /\ last' = NoOp
  /\ UNCHANGED <<redis, initPc, fallbackStorage, run, batch, redisUrl,
                 disconnects, req,
                 request, history, pending>>

\* initializeRedis: import('ioredis') resolves, the client is created and
\* assigned to this.redis, connect() is issued
ImportOk ==
  /\ initPc = "importing"
  /\ redis' = "client"
  /\ initPc' = "connecting"
  /\ last' = NoOp
  /\ UNCHANGED <<now, fallbackStorage, zset, ttl, run, batch, redisUrl,
                 disconnects, req,
                 request, history, pending>>

\* import('ioredis') rejects or the constructor throws: caught, lines 74-88
ImportFail ==
  /\ initPc = "importing"
  /\ initPc' = "noClient"
  /\ last' = NoOp
  /\ UNCHANGED <<now, redis, fallbackStorage, zset, ttl, run, batch, redisUrl,
                 disconnects, req,
                 request, history, pending>>

ConnectOk ==
  /\ initPc = "connecting"
  /\ initPc' = "connected"
  /\ last' = NoOp
  /\ UNCHANGED <<now, redis, fallbackStorage, zset, ttl, run, batch, redisUrl,
                 disconnects, req,
                 request, history, pending>>

\* connect() rejects: caught, lines 74-88; this.redis keeps the client
ConnectFail ==
  /\ initPc = "connecting"
  /\ initPc' = "failed"
  /\ last' = NoOp
  /\ UNCHANGED <<now, redis, fallbackStorage, zset, ttl, run, batch, redisUrl,
                 disconnects, req,
                 request, history, pending>>

\* a catch block that gives up the store after an error
HandleAfterError_Demote(handle) == "null"

\* this.redis after the catch blocks of lines 102-105 and 263-265: they log
\* the error and leave the handle as it is
HandleAfterError(handle) == handle

CheckReplies == {"ok", "reject", "null", "countErr"}

\* whether the commands of a batch took effect in the store, by reply: a
\* rejected exec() may or may not have reached the store, a null reply
\* means nothing was run, and a count error leaves the other three applied
Applied(reply) ==
  CASE reply = "reject" -> BOOLEAN
    [] reply = "countErr" -> {TRUE}
    [] OTHER -> {FALSE}

\* the replies a check can get: none when it never calls the store (handle
\* unset, or parseWindow has thrown before)
StoreCalled(options) ==
  IF redis = "null" \/ ~WindowMatch(options.window)
  THEN {"none"} ELSE CheckReplies

RECURSIVE SumOver(_, _)
SumOver(S, f) ==
  IF S = {} THEN 0
  ELSE LET x == CHOOSE y \in S : TRUE IN f[x] + SumOver(S \ {x}, f)

\* the number of hits the two backends hold
TotalHits ==
  SumOver(AllKeys, [k \in AllKeys |->
                   Len(MapGet(fallbackStorage, k)) + Cardinality(zset[k])])

\* a rejected call that has made the entry of its key before parsing
StorageAfterThrow_EntryFirst(storage, key) ==
  MapSet(storage, key, MapGet(storage, key))

\* the local map after a call whose window parseWindow rejects: the parse
\* of line 92 comes before the handle is read and before fallbackRateLimit
\* is entered, so the map is the one the call found
StorageAfterThrow(storage, key) == storage

checkRateLimit(key, options, reply, applied, tie) ==
  /\ TotalHits < MaxHits
  /\ reply \in StoreCalled(options) \cup
                (IF "ok" \in StoreCalled(options) THEN StepErrors ELSE {})
  /\ applied \in Applied(reply)
  /\ tie \in (IF reply = "none" THEN {1} ELSE Ranks(zset[key], now))
  /\ LET call ==
           [NoOp EXCEPT !.op = "check", !.key = key,
                        !.requests = options.requests,
                        !.window = options.window, !.now = now,
                        !.handle = redis, !.reply = reply,
                        !.preLocal = MapGet(fallbackStorage, key),
                        !.preZset = zset[key],
                        !.afterDecrement =
                           (last.op = "decrement" /\ last.key = key)]
     IN
     IF ~WindowMatch(options.window)
     THEN \* parseWindow throws, line 219
          /\ last' = [call EXCEPT !.threw = TRUE,
                                  !.error = InvalidWindowError(options.window)]
          /\ fallbackStorage' = StorageAfterThrow(fallbackStorage, key)
          /\ UNCHANGED <<now, redis, initPc, zset, ttl,
                         run, batch, redisUrl,
                 disconnects>>
     ELSE LET windowMs == parseWindow(options.window)
              windowStart == now - windowMs
              f == fallbackRateLimit(fallbackStorage, key, options, now)
              r == redisRateLimit(zset[key], ttl[key], options, now,
                                  windowStart, windowMs, reply, applied, tie)
              local == redis = "null" \/ r.threw
              path == IF local THEN "local" ELSE "redis"
          IN /\ fallbackStorage' = IF local THEN f.storage ELSE fallbackStorage
             /\ zset' = IF redis = "null" THEN zset
                        ELSE [zset EXCEPT ![key] = r.z]
             /\ ttl' = IF redis = "null" THEN ttl
                       ELSE [ttl EXCEPT ![key] = r.ttl]
             /\ last' = [call EXCEPT !.path = path,
                           !.result = IF local THEN f.result ELSE r.result]
             /\ run' = [run EXCEPT
                          ![key] = IF reply \in StepErrors THEN NoRun
                                   ELSE NextRun(run[key], key, options,
                                                windowMs, path)]
             /\ redis' = IF redis # "null" /\ r.threw
                         THEN HandleAfterError(redis) ELSE redis
             /\ UNCHANGED <<now, initPc, batch, redisUrl,
                 disconnects>>

\* timestamps.pop(), line 232: the list without its last element
pop(timestamps) == SubSeq(timestamps, 1, Len(timestamps) - 1)

DecrementReplies == {"ok", "readFails", "removeFails"}

\* the read of the latest hit placed before the try block
InTry_ReadOutside(site) == site = "exec"

\* whether an error raised at this place of decrementRateLimit is caught by
\* the try block of lines 242-266
InTry(site) == site \in {"zrevrange", "exec"}

decrementRateLimit(key, reply, applied) ==
  /\ IF redis = "null" THEN reply = "none" ELSE reply \in DecrementReplies
  /\ applied => (reply = "removeFails" /\ zset[key] # {})
  /\ LET call ==
           [NoOp EXCEPT !.op = "decrement", !.key = key, !.now = now,
                        !.handle = redis, !.reply = reply,
                        !.path = IF redis = "null" THEN "local" ELSE "redis",
                        !.preLocal = MapGet(fallbackStorage, key),
                        !.preZset = zset[key]]
     IN
     IF redis = "null"
     THEN LET timestamps == MapGet(fallbackStorage, key)
              popped == pop(timestamps)
          IN /\ fallbackStorage' =
                  IF key \in DOMAIN fallbackStorage /\ Len(timestamps) > 0
                  THEN IF Len(popped) = 0
                       THEN MapDelete(fallbackStorage, key)
                       ELSE MapSet(fallbackStorage, key, popped)
                  ELSE fallbackStorage
             /\ last' = call
             /\ UNCHANGED <<zset, ttl, redis>>
     ELSE LET entries == ZRevRange0(zset[key])
              raised == CASE reply = "readFails" -> "zrevrange"
                          [] reply = "removeFails" /\ Len(entries) >= 2 -> "exec"
                          [] OTHER -> "none"
              removes == /\ reply # "readFails"
                         /\ Len(entries) >= 2
                         /\ (reply = "ok" \/ applied)
              z == IF removes THEN ZRem(zset[key], entries[1]) ELSE zset[key]
          IN /\ zset' = [zset EXCEPT ![key] = z]
             /\ ttl' = [ttl EXCEPT ![key] = IF z = {} THEN -1 ELSE ttl[key]]
             /\ last' = [call EXCEPT
                           !.threw = raised # "none" /\ ~InTry(raised)]
             /\ redis' = IF raised # "none" /\ InTry(raised)
                         THEN HandleAfterError(redis) ELSE redis
             /\ UNCHANGED fallbackStorage
  /\ run' = [run EXCEPT ![key] = NoRun]
  /\ UNCHANGED <<now, initPc, batch, redisUrl,
                 disconnects>>

\* a handler of 'error' that gives up the store
OnError_Demote ==
  /\ redis = "client"
  /\ redis' = "null"
  /\ last' = [NoOp EXCEPT !.op = "errorEvent", !.now = now, !.handle = redis]
  /\ UNCHANGED <<now, initPc, fallbackStorage, zset, ttl, run, batch, redisUrl,
                 disconnects, req,
                 request, history, pending>>

\* the client emits 'error' (a failed connect, a dropped connection): the
\* handler of lines 65-67 logs it
OnError ==
  /\ redis = "client"
  /\ last' = [NoOp EXCEPT !.op = "errorEvent", !.now = now, !.handle = redis]
  /\ UNCHANGED <<now, redis, initPc, fallbackStorage, zset, ttl, run, batch, redisUrl,
                 disconnects, req,
                 request, history, pending>>

\* what ping() gives: it resolves, or it rejects
PingReplies == {"pong", "error"}

\* a health check that does not wait for the answer of the probe
healthCheckResult_IgnoresProbe(handle, reply) == handle # "null"

\* the value healthCheck returns, lines 274-286
healthCheckResult(handle, reply) ==
  IF handle = "null" THEN FALSE ELSE reply = "pong"

\* a health check that gives up the store when the probe fails
healthCheck_Demote(reply) ==
  /\ reply \in (IF redis = "null" THEN {"none"} ELSE PingReplies)
  /\ last' = [NoOp EXCEPT !.op = "health", !.now = now, !.handle = redis,
                          !.reply = reply,
                          !.healthy = healthCheckResult(redis, reply)]
  /\ redis' = IF reply = "error" THEN "null" ELSE redis
  /\ UNCHANGED <<now, initPc, fallbackStorage, zset, ttl, run, batch, redisUrl,
                 disconnects, req,
                 request, history, pending>>

\* healthCheck, lines 273-287; reply is "none" when no probe is sent
healthCheck(reply) ==
  /\ reply \in (IF redis = "null" THEN {"none"} ELSE PingReplies)
  /\ last' = [NoOp EXCEPT !.op = "health", !.now = now, !.handle = redis,
                          !.reply = reply,
                          !.healthy = healthCheckResult(redis, reply)]
  /\ UNCHANGED <<now, redis, initPc, fallbackStorage, zset, ttl, run, batch, redisUrl,
                 disconnects, req,
                 request, history, pending>>

\* the policies of the calls: every limit with the windows that parse, one
\* limit with the strings that do not
Options ==
  [requests : Requests, window : GoodWindows]
    \cup [requests : {1}, window : BadWindows]

\* a caller checks a key of Keys
CheckCall ==
  \E key \in Keys, options \in Options :
    \E reply \in StoreCalled(options) :
      \E applied \in Applied(reply), tie \in Ranks(zset[key], now) :
        checkRateLimit(key, options, reply, applied, tie) /\ UNCHANGED <<req, request, history, pending>>

\* a caller decrements a key of Keys
DecrementCall ==
  \E key \in Keys :
    \E reply \in (IF redis = "null" THEN {"none"} ELSE DecrementReplies) :
      \E applied \in BOOLEAN :
        decrementRateLimit(key, reply, applied) /\ UNCHANGED <<req, request, history, pending>>

\* a caller asks for the health of the store
HealthCall == \E reply \in {"none"} \cup PingReplies : healthCheck(reply)

Next ==
  \/ Tick
  \/ ImportOk
  \/ ImportFail
  \/ ConnectOk
  \/ ConnectFail
  \/ OnError
  \/ CheckCall
  \/ DecrementCall
  \/ HealthCall

Spec == Init /\ [][Next]_vars

TypeOK ==
  /\ now \in 0..(MaxTicks * Step)
  /\ redis \in {"null", "client"}
  /\ initPc \in {"skipped", "importing", "noClient", "connecting",
                 "connected", "failed"}
  /\ DOMAIN fallbackStorage \subseteq Keys
  /\ TotalHits <= MaxHits + 1

\* ------------------------------------------- errors of single commands
\* a check whose pipeline runs but has one command refused by the store
\* (a write refused by a read-only replica or for lack of memory, a key
\* of another type)
StepErrorCall ==
  \E key \in Keys, options \in Options, reply \in StepErrors :
    \E tie \in Ranks(zset[key], now) :
      checkRateLimit(key, options, reply, FALSE, tie) /\ UNCHANGED <<req, request, history, pending>>

NextStepErrors ==
  \/ Next
  \/ StepErrorCall

SpecStepErrors == Init /\ [][NextStepErrors]_vars

\* the engine when REDIS_URL is unset or empty
SpecConfig == InitConfig /\ [][Next]_vars

\* ------------------------------------------------------------- shutdown
\* onModuleDestroy, lines 289-295: disconnect() when the handle is set,
\* then fallbackStorage.clear(); the handle is left as it is
onModuleDestroy ==
  /\ redis # "null" => disconnects < MaxDestroys
  /\ disconnects' = IF redis # "null" THEN disconnects + 1 ELSE disconnects
  /\ fallbackStorage' = EmptyMap
  /\ last' = [NoOp EXCEPT !.op = "destroy", !.now = now, !.handle = redis,
                          !.preLocal = MapGet(fallbackStorage, "a")]
  /\ run' = [k \in AllKeys |-> NoRun]
  /\ UNCHANGED <<now, redis, initPc, zset, ttl, batch, redisUrl, req,
                 request, history, pending>>

\* calls are made on the engine until its client is disconnected
CheckBeforeDisconnect == disconnects = 0 /\ CheckCall

NextShutdown ==
  \/ Tick
  \/ ImportOk
  \/ ImportFail
  \/ ConnectOk
  \/ ConnectFail
  \/ CheckBeforeDisconnect
  \/ onModuleDestroy

SpecShutdown == Init /\ [][NextShutdown]_vars

\* ------------------------------------------- the guard and the interceptor
\* Requests pass RateLimitGuard.canActivate, then the route handler runs
\* under RateLimitInterceptor.intercept and its response stream emits values
\* and completes, or fails. Time stands still, so that no hit leaves its
\* window; the requests are on one route, hence on the one key generateKey
\* gives for it and under the same metadata. The engine has finished its
\* initialisation: it holds no client, or a client.
\* handleResponse is started with `void` and runs to its end before the
\* next step.

\* the metadata of the routes: none, the four settings of the two skip
\* flags on a window that parses, and a window that does not parse
RouteOptions ==
  {NoMeta}
    \cup [present : {TRUE}, requests : {1}, window : {<<"1", "s">>},
          skipSuccessfulRequests : BOOLEAN, skipFailedRequests : BOOLEAN]
    \cup [present : {TRUE}, requests : {1}, window : {<<"5", "x">>},
          skipSuccessfulRequests : {FALSE}, skipFailedRequests : {TRUE}]

\* response.statusCode when a value is emitted
StatusCodes == {200, 302, 404}

\* the errors a response stream fails with: status and response.statusCode,
\* 0 where the error has no such field
StreamErrors ==
  {[status |-> 400, response |-> 0], [status |-> 0, response |-> 500],
   [status |-> 0, response |-> 0]}

\* the hits the two backends hold for a key
HitCount(key) == Len(MapGet(fallbackStorage, key)) + Cardinality(zset[key])

\* a guard that lets the request pass whatever the result says
canActivateTry_IgnoresResult(result) == "true"

\* the try block of canActivate after checkRateLimit has resolved, lines
\* 100-133: "HttpException" is the 429 thrown, "true" the value returned
canActivateTry(result) ==
  IF ~result.allowed THEN "HttpException" ELSE "true"

\* a catch block that rethrows whatever it catches
canActivateCatch_FailClosed(error) ==
  IF error = "HttpException" THEN "429" ELSE "error"

\* the catch block of canActivate, lines 134-147: an HttpException is
\* thrown again, any other error is logged and the guard returns true
canActivateCatch(error) ==
  IF error = "HttpException" THEN "429" ELSE "true"

\* the engine after initializeRedis, with the metadata of the route
InitRequests ==
  /\ now = 0
  /\ redisUrl \in RedisUrls \ {""}
  /\ redis = IF UrlAbsent(redisUrl) THEN "null" ELSE "client"
  /\ initPc = IF UrlAbsent(redisUrl) THEN "skipped" ELSE "connected"
  /\ fallbackStorage = EmptyMap
  /\ zset = [k \in AllKeys |-> {}]
  /\ ttl = [k \in AllKeys |-> -1]
  /\ last = NoOp
  /\ run = [k \in AllKeys |-> NoRun]
  /\ batch = [c \in Callers |-> NoBatch]
  /\ disconnects = 0
  /\ \E options \in RouteOptions :
       req = [r \in Reqs |-> [NoRequest EXCEPT !.options = options]]
  /\ request = NoExpress
  /\ history = <<>>
  /\ pending = [c \in Callers |-> NoPending]

\* canActivate, lines 77-148, for the request r; reply, applied and tie are
\* what the store does with the check
canActivate(r, key, reply, applied, tie) ==
  /\ req[r].pc = "new"
  /\ LET options == req[r].options IN
     IF ~options.present
     THEN /\ req' = [req EXCEPT ![r] = [@ EXCEPT !.pc = "handling",
                                                !.outcome = "true"]]
          /\ reply = "none" /\ ~applied /\ tie = 1
          /\ UNCHANGED <<now, redis, initPc, fallbackStorage, zset, ttl,
                         last, run, batch, redisUrl, disconnects>>
     ELSE /\ checkRateLimit(key, options, reply, applied, tie)
          /\ LET thrown == IF last'.threw THEN "Error"
                           ELSE canActivateTry(last'.result)
                 outcome == IF thrown = "true" THEN "true"
                            ELSE canActivateCatch(thrown)
                 hits == Len(MapGet(fallbackStorage', key))
                           + Cardinality(zset'[key]) - HitCount(key)
             IN req' = [req EXCEPT ![r] =
                          [@ EXCEPT !.pc = IF outcome = "true"
                                           THEN "handling" ELSE "denied",
                                    !.checks = @ + 1,
                                    !.outcome = outcome, !.hits = hits]]

\* an interceptor that undoes a hit for every failed request
shouldSkip_AnyFailure(options, statusCode) ==
  \/ options.skipSuccessfulRequests /\ statusCode >= 200 /\ statusCode < 300
  \/ statusCode >= 400

\* shouldSkip of handleResponse, lines 135-165
shouldSkip(options, statusCode) ==
  \/ options.skipSuccessfulRequests /\ statusCode >= 200 /\ statusCode < 300
  \/ options.skipFailedRequests /\ statusCode >= 400

\* handleResponse, lines 129-176, for the request r; with no metadata
\* intercept returns next.handle() untouched and nothing is called
handleResponse(r, key, statusCode, pc, reply, applied) ==
  LET options == req[r].options
      calls == options.present /\ shouldSkip(options, statusCode)
  IN /\ IF calls
        THEN decrementRateLimit(key, reply, applied)
        ELSE /\ reply = "none" /\ ~applied
             /\ UNCHANGED <<now, redis, initPc, fallbackStorage, zset, ttl,
                            last, run, batch, redisUrl, disconnects>>
     /\ req' = [req EXCEPT ![r] =
                  [@ EXCEPT !.pc = pc, !.status = statusCode,
                            !.emitted = IF pc = "handling" THEN @ + 1 ELSE @,
                            !.decrements = IF calls THEN @ + 1 ELSE @]]

\* the status read from an error, lines 117-122
errorStatus(error) ==
  IF error.status # 0 THEN error.status
  ELSE IF error.response # 0 THEN error.response ELSE 500

\* a request reaches the guard
GuardCall ==
  \E r \in Reqs, key \in Keys :
    \E reply \in {"none"} \cup CheckReplies, applied \in BOOLEAN,
       tie \in Ranks(zset[key], now) :
      /\ canActivate(r, key, reply, applied, tie)
      /\ UNCHANGED <<request, history, pending>>

\* the response stream of a request emits a value: the next callback of
\* tap, lines 112-114
StreamNext ==
  \E r \in Reqs, key \in Keys, statusCode \in StatusCodes :
    \E reply \in {"none"} \cup DecrementReplies, applied \in BOOLEAN :
      /\ req[r].pc = "handling"
      /\ req[r].emitted < MaxEmissions
      /\ handleResponse(r, key, statusCode, "handling", reply, applied)
      /\ UNCHANGED <<request, history, pending>>

\* the response stream fails: the error callback of tap, lines 115-124
StreamError ==
  \E r \in Reqs, key \in Keys, error \in StreamErrors :
    \E reply \in {"none"} \cup DecrementReplies, applied \in BOOLEAN :
      /\ req[r].pc = "handling"
      /\ handleResponse(r, key, errorStatus(error), "done", reply, applied)
      /\ UNCHANGED <<request, history, pending>>

\* the response stream completes
StreamComplete ==
  \E r \in Reqs :
    /\ req[r].pc = "handling"
    /\ req' = [req EXCEPT ![r] = [@ EXCEPT !.pc = "done"]]
    /\ UNCHANGED <<now, redis, initPc, fallbackStorage, zset, ttl, last, run,
                   batch, redisUrl, disconnects, request, history, pending>>

NextRequests ==
  \/ GuardCall
  \/ StreamNext
  \/ StreamError
  \/ StreamComplete

SpecRequests == InitRequests /\ [][NextRequests]_vars

\* ------------------------------------------- compaction of the local map
\* The engine holds no client and its map already holds one hit, made at
\* time 0, for each of CleanupThreshold - 1 other keys, so that the checks
\* on the keys of AllKeys take the map to the threshold and past it.
FillerKeys == {ToString(i) : i \in 1..(CleanupThreshold - 1)}

InitCompaction ==
  /\ now = 0
  /\ redis = "null"
  /\ redisUrl = "undefined"
  /\ initPc = "skipped"
  /\ fallbackStorage = [k \in FillerKeys |-> <<0>>]
  /\ zset = [k \in AllKeys |-> {}]
  /\ ttl = [k \in AllKeys |-> -1]
  /\ last = NoOp
  /\ run = [k \in AllKeys |-> NoRun]
  /\ batch = [c \in Callers |-> NoBatch]
  /\ disconnects = 0
  /\ req = [r \in Reqs |-> NoRequest]
  /\ request = NoExpress
  /\ history = <<>>
  /\ pending = [c \in Callers |-> NoPending]

\* the policies of the checks that meet the compaction
CompactionOptions == [requests : {1}, window : GoodWindows]

\* a caller checks one of the two keys
CompactionCheck ==
  \E key \in AllKeys, options \in CompactionOptions :
    /\ checkRateLimit(key, options, "none", FALSE, 1)
    /\ UNCHANGED <<req, request, history, pending>>

NextCompaction == Tick \/ CompactionCheck

SpecCompaction == InitCompaction /\ [][NextCompaction]_vars

\* ------------------------------------------------- the keys of a request
\* generateKey of the guard and of the interceptor, each applied once to
\* the same Express request and the same options. A key is the tuple of
\* the parts its template string joins with ':'.

\* the requests: ip and socket.remoteAddress may be undefined (""), the
\* route may be missing or without path (""), request.path is a string or
\* not ("nonstring"); the options name the keyGenerator, if any
ExpressRequests ==
  [ip : {"", "10.0.0.1", "10.0.0.2"}, remoteAddress : {"", "10.0.0.3"},
   routePath : {"", "/users/:id"}, path : {"/users/7", "nonstring"},
   keyGenerator : {"none", "byIp", "byPath"},
   guardKey : {<<>>}, interceptorKey : {<<>>}]

\* options.keyGenerator(request) for the generators of the options
keyGenerator(r) ==
  IF r.keyGenerator = "byIp" THEN <<"custom", r.ip>>
  ELSE <<"custom", r.path>>

\* getRequestPath of the guard, part_002 lines 161-171
guardGetRequestPath(r) ==
  IF r.routePath # "" THEN r.routePath
  ELSE IF r.path # "nonstring" THEN r.path ELSE "/"

\* generateKey of the guard, part_002 lines 150-159
guardGenerateKey(r) ==
  IF r.keyGenerator # "none" THEN keyGenerator(r)
  ELSE LET ip == IF r.ip # "" THEN r.ip
                 ELSE IF r.remoteAddress # "" THEN r.remoteAddress
                 ELSE "unknown"
       IN <<"rate_limit", ip, guardGetRequestPath(r)>>

\* a path that leaves the route aside
interceptorGetRequestPath_NoRoute(r) ==
  IF r.path # "nonstring" THEN r.path ELSE "/"

\* getRequestPath of the interceptor, lines 189-199
interceptorGetRequestPath(r) ==
  IF r.routePath # "" THEN r.routePath
  ELSE IF r.path # "nonstring" THEN r.path ELSE "/"

\* generateKey of the interceptor, lines 178-187
interceptorGenerateKey(r) ==
  IF r.keyGenerator # "none" THEN keyGenerator(r)
  ELSE LET ip == IF r.ip # "" THEN r.ip
                 ELSE IF r.remoteAddress # "" THEN r.remoteAddress
                 ELSE "unknown"
       IN <<"rate_limit", ip, interceptorGetRequestPath(r)>>

InitKeys ==
  /\ now = 0
  /\ redis = "null"
  /\ redisUrl = "undefined"
  /\ initPc = "skipped"
  /\ fallbackStorage = EmptyMap
  /\ zset = [k \in AllKeys |-> {}]
  /\ ttl = [k \in AllKeys |-> -1]
  /\ last = NoOp
  /\ run = [k \in AllKeys |-> NoRun]
  /\ batch = [c \in Callers |-> NoBatch]
  /\ disconnects = 0
  /\ req = [r \in Reqs |-> NoRequest]
  /\ request \in ExpressRequests
  /\ history = <<>>
  /\ pending = [c \in Callers |-> NoPending]

\* canActivate makes the key it passes to checkRateLimit, part_002 line 92
GuardKey ==
  /\ request.guardKey = <<>>
  /\ request' = [request EXCEPT !.guardKey = guardGenerateKey(request)]
  /\ UNCHANGED <<now, redis, initPc, fallbackStorage, zset, ttl, last, run,
                 batch, redisUrl, disconnects, req, history, pending>>

\* intercept makes the key it passes to handleResponse, line 108
InterceptorKey ==
  /\ request.guardKey # <<>>
  /\ request.interceptorKey = <<>>
  /\ request' =
       [request EXCEPT !.interceptorKey = interceptorGenerateKey(request)]
  /\ UNCHANGED <<now, redis, initPc, fallbackStorage, zset, ttl, last, run,
                 batch, redisUrl, disconnects, req, history, pending>>

NextKeys == GuardKey \/ InterceptorKey

SpecKeys == InitKeys /\ [][NextKeys]_vars

\* ------------------------------------------- checks with several windows
\* The engine holds no client, so every check is served by the local
\* path (checkRateLimit, lines 96-98); the checks are on one key, with two
\* windows, and history keeps what each of them was given and returned.
InitHistory == InitWith({"undefined"}) /\ last = NoOp

\* the policies of the checks whose history is kept
HistoryOptions == [requests : {2}, window : GoodWindows]

HistoryCheck ==
  \E key \in Keys, options \in HistoryOptions :
    /\ redis = "null"
    /\ Len(history) < MaxChecks
    /\ LET f == fallbackRateLimit(fallbackStorage, key, options, now) IN
       /\ fallbackStorage' = f.storage
       /\ last' = [NoOp EXCEPT !.op = "check", !.key = key,
                               !.requests = options.requests,
                               !.window = options.window, !.now = now,
                               !.handle = redis, !.path = "local",
                               !.result = f.result,
                               !.preLocal = MapGet(fallbackStorage, key)]
       /\ history' = Append(history,
                            [key |-> key, now |-> now,
                             requests |-> options.requests,
                             windowMs |-> parseWindow(options.window),
                             result |-> f.result])
    /\ UNCHANGED <<now, redis, initPc, zset, ttl, run, batch, redisUrl,
                   disconnects, req, request, pending>>

NextHistory == Tick \/ HistoryCheck

SpecHistory == InitHistory /\ [][NextHistory]_vars

\* ------------------------------------------ decrements side by side
\* decrementRateLimit on the store path awaits twice, lines 246 and 256:
\* the read of the latest entry and the exec of the batch holding zrem.
\* Other calls of the event loop run between the two. The engine holds a
\* client; each caller makes one decrement, checks come in between.
InitDecrements ==
  /\ now = 0
  /\ redis = "client"
  /\ redisUrl = "redis://localhost:6379"
  /\ initPc = "connected"
  /\ fallbackStorage = EmptyMap
  /\ zset = [k \in AllKeys |-> {}]
  /\ ttl = [k \in AllKeys |-> -1]
  /\ last = NoOp
  /\ run = [k \in AllKeys |-> NoRun]
  /\ batch = [c \in Callers |-> NoBatch]
  /\ disconnects = 0
  /\ req = [r \in Reqs |-> NoRequest]
  /\ request = NoExpress
  /\ history = <<>>
  /\ pending = [c \in Callers |-> NoPending]

\* a member some caller has read, named as it is after a zadd at tie: the
\* model numbers the members of one score 1..n, a real member keeps its
\* name
AfterAdd(member, score, tie) ==
  IF member[1] = score /\ member[2] >= tie
  THEN <<member[1], member[2] + 1>> ELSE member

\* a member that is in no set
Gone == <<-1, 0>>

\* the same member after a zrem of removed
AfterRem(member, removed) ==
  IF member = removed THEN Gone
  ELSE IF member[1] = removed[1] /\ member[2] > removed[2]
       THEN <<member[1], member[2] - 1>> ELSE member

\* whether this caller holds an entry it has read of the key
HoldsEntry(p, key) ==
  p.pc = "read" /\ p.key = key /\ Len(p.entries) >= 2

\* the entries the callers hold, after a zadd at tie
RenamedByAdd(p, key, score, tie) ==
  [d \in Callers |->
     IF HoldsEntry(p[d], key)
     THEN [p[d] EXCEPT !.entries = <<AfterAdd(p[d].entries[1], score, tie),
                                     p[d].entries[2]>>]
     ELSE p[d]]

\* the entries the callers hold, after a zrem of removed
RenamedByRem(p, key, removed) ==
  [d \in Callers |->
     IF HoldsEntry(p[d], key)
     THEN [p[d] EXCEPT !.entries = <<AfterRem(p[d].entries[1], removed),
                                     p[d].entries[2]>>]
     ELSE p[d]]

\* a check served by the store while decrements are under way
DecrementsCheck ==
  \E key \in Keys, options \in [requests : {MaxHits}, window : GoodWindows] :
    \E tie \in Ranks(zset[key], now) :
      /\ redis # "null"
      /\ TotalHits < MaxHits
      /\ LET windowMs == parseWindow(options.window)
             windowStart == now - windowMs
             r == redisRateLimit(zset[key], ttl[key], options, now,
                                 windowStart, windowMs, "ok", FALSE, tie)
         IN /\ zset' = [zset EXCEPT ![key] = r.z]
            /\ ttl' = [ttl EXCEPT ![key] = r.ttl]
            /\ last' = [NoOp EXCEPT !.op = "check", !.key = key,
                                    !.requests = options.requests,
                                    !.window = options.window, !.now = now,
                                    !.handle = redis, !.reply = "ok",
                                    !.path = "redis", !.result = r.result,
                                    !.preZset = zset[key]]
            /\ pending' = RenamedByAdd(pending, key, now, tie)
      /\ UNCHANGED <<now, redis, initPc, fallbackStorage, run, batch,
                     redisUrl, disconnects, req, request, history>>

\* lines 243-249: the pipeline is made and zrevrange is awaited
DecrementRead(c) ==
  \E key \in Keys :
    /\ redis # "null"
    /\ pending[c].pc = "idle"
    /\ pending' = [pending EXCEPT
                     ![c] = [pc |-> "read", key |-> key,
                             entries |-> ZRevRange0(zset[key]),
                             held |-> ZCard(zset[key]), removed |-> 0]]
    /\ UNCHANGED <<now, redis, initPc, fallbackStorage, zset, ttl, last, run,
                   batch, redisUrl, disconnects, req, request, history>>

\* lines 251-257: with an entry read, zrem of it is queued and exec awaited
DecrementRemove(c) ==
  LET key == pending[c].key
      entries == pending[c].entries
      z == IF Len(entries) >= 2 THEN ZRem(zset[key], entries[1])
           ELSE zset[key]
      others == IF Len(entries) >= 2
                THEN RenamedByRem(pending, key, entries[1]) ELSE pending
  IN /\ pending[c].pc = "read"
     /\ zset' = [zset EXCEPT ![key] = z]
     /\ ttl' = [ttl EXCEPT ![key] = IF z = {} THEN -1 ELSE ttl[key]]
     /\ pending' = [others EXCEPT
                      ![c] = [pending[c] EXCEPT
                                !.pc = "done",
                                !.removed = ZCard(zset[key]) - ZCard(z)]]
     /\ last' = [NoOp EXCEPT !.op = "decrement", !.key = key, !.now = now,
                             !.handle = redis, !.reply = "ok",
                             !.path = "redis", !.preZset = zset[key]]
     /\ run' = [run EXCEPT ![key] = NoRun]
     /\ UNCHANGED <<now, redis, initPc, fallbackStorage, batch, redisUrl,
                    disconnects, req, request, history>>

NextDecrements ==
  \/ Tick
  \/ DecrementsCheck
  \/ \E c \in Callers : DecrementRead(c) \/ DecrementRemove(c)

SpecDecrements == InitDecrements /\ [][NextDecrements]_vars

\* ------------------------------------------------- calls on two keys
\* The engine after its initialisation, without client or with one; checks
\* and decrements are made on both keys.
InitIsolation ==
  /\ now = 0
  /\ redisUrl \in RedisUrls \ {""}
  /\ redis = IF UrlAbsent(redisUrl) THEN "null" ELSE "client"
  /\ initPc = IF UrlAbsent(redisUrl) THEN "skipped" ELSE "connected"
  /\ fallbackStorage = EmptyMap
  /\ zset = [k \in AllKeys |-> {}]
  /\ ttl = [k \in AllKeys |-> -1]
  /\ last = NoOp
  /\ run = [k \in AllKeys |-> NoRun]
  /\ batch = [c \in Callers |-> NoBatch]
  /\ disconnects = 0
  /\ req = [r \in Reqs |-> NoRequest]
  /\ request = NoExpress
  /\ history = <<>>
  /\ pending = [c \in Callers |-> NoPending]

\* the policies of the calls on two keys
IsolationOptions ==
  [requests : {1}, window : GoodWindows \cup {<<"5", "x">>}]

IsolationCheck ==
  \E key \in AllKeys, options \in IsolationOptions :
    \E reply \in StoreCalled(options) :
      \E applied \in Applied(reply), tie \in Ranks(zset[key], now) :
        /\ checkRateLimit(key, options, reply, applied, tie)
        /\ UNCHANGED <<req, request, history, pending>>

IsolationDecrement ==
  \E key \in AllKeys :
    \E reply \in (IF redis = "null" THEN {"none"} ELSE DecrementReplies) :
      \E applied \in BOOLEAN :
        /\ decrementRateLimit(key, reply, applied)
        /\ UNCHANGED <<req, request, history, pending>>

NextIsolation == Tick \/ IsolationCheck \/ IsolationDecrement

SpecIsolation == InitIsolation /\ [][NextIsolation]_vars

\* --------------------------------------------------- parseWindow alone
\* the strings of one or two digits
DigitStrings ==
  {<<a>> : a \in Digits} \cup {<<a, b>> : a \in Digits, b \in Digits}

\* the strings given to parseWindow: an amount up to MaxAmount (with and
\* without a leading zero) followed by a unit, by the letter x or by
\* nothing, and '30s'
ParseInputs ==
  LET amounts == {ds \in DigitStrings : parseInt(ds) <= MaxAmount}
  IN {Append(ds, u) : ds \in amounts, u \in {"s", "m", "h", "d", "x"}}
       \cup amounts \cup {<<"3", "0", "s">>}

\* a string is about to be parsed
InitParse ==
  /\ InitWith({"undefined"})
  /\ \E window \in ParseInputs :
       last = [NoOp EXCEPT !.op = "parseInput", !.window = window]

\* parseWindow, lines 209-224: it throws or returns, and touches no field
ParseCall ==
  /\ last.op = "parseInput"
  /\ last' = IF WindowMatch(last.window)
             THEN [last EXCEPT !.op = "parse",
                               !.windowMs = parseWindow(last.window)]
             ELSE [last EXCEPT !.op = "parse", !.threw = TRUE,
                               !.error = InvalidWindowError(last.window)]
  /\ UNCHANGED <<now, redis, initPc, fallbackStorage, zset, ttl, run, batch,
                 redisUrl,
                 disconnects, req,
                 request, history, pending>>

NextParse == ParseCall

SpecParse == InitParse /\ [][NextParse]_vars

\* ------------------------------------------- pipelines of several callers
\* redisRateLimit sends its four commands with pipeline(), not multi(): the
\* store applies them one by one, in order, and between two of them it may
\* apply a command that another caller has sent.
InitCallers ==
  /\ disconnects = 0
  /\ req = [r \in Reqs |-> NoRequest]
  /\ request = NoExpress
  /\ history = <<>>
  /\ pending = [c \in Callers |-> NoPending]
  /\ now = 0
  /\ redis = "client"
  /\ redisUrl = "redis://localhost:6379"
  /\ initPc = "connected"
  /\ fallbackStorage = EmptyMap
  /\ zset = [k \in AllKeys |-> {}]
  /\ ttl = [k \in AllKeys |-> -1]
  /\ last = NoOp
  /\ run = [k \in AllKeys |-> NoRun]
  /\ batch = [c \in Callers |-> NoBatch]

\* the hits the callers in flight have yet to insert
ToInsert == Cardinality({c \in Callers : batch[c].pc \in {"prune", "insert"}})

\* checkRateLimit up to pipeline.exec(), lines 92-129: now is read and the
\* four commands are sent
BatchSend(c, key, options) ==
  /\ batch[c].pc = "idle"
  /\ redis = "client"
  /\ WindowMatch(options.window)
  /\ TotalHits + ToInsert < MaxHits
  /\ batch' = [batch EXCEPT ![c] =
                 [NoBatch EXCEPT !.pc = "prune", !.key = key,
                                 !.requests = options.requests,
                                 !.window = options.window, !.now = now]]
  /\ last' = NoOp
  /\ UNCHANGED <<now, redis, initPc, fallbackStorage, zset, ttl, run,
               redisUrl,
                 disconnects, req,
                 request, history, pending>>

\* whether caller d has had its prune applied and not yet its count
BetweenPruneAndCount(d, key) ==
  batch[d].key = key /\ batch[d].pc \in {"insert", "count"}

\* the store applies the next command of the pipeline of caller c
BatchStep(c, tie) ==
  LET b == batch[c]
      key == b.key
      windowMs == parseWindow(b.window)
      writes == b.pc \in {"prune", "insert"}
      marked == [d \in Callers |->
                   IF d # c /\ writes /\ BetweenPruneAndCount(d, key)
                   THEN [batch[d] EXCEPT !.interleaved = TRUE]
                   ELSE batch[d]]
  IN /\ b.pc \in {"prune", "insert", "count", "expire"}
     /\ tie \in (IF b.pc = "insert" THEN Ranks(zset[key], b.now) ELSE {1})
     /\ zset' = [zset EXCEPT ![key] =
                   CASE b.pc = "prune" ->
                          ZRemRangeByScore(zset[key], 0, b.now - windowMs)
                     [] b.pc = "insert" -> ZAdd(zset[key], b.now, tie)
                     [] OTHER -> zset[key]]
     /\ ttl' = [ttl EXCEPT ![key] =
                  IF b.pc = "expire" /\ zset[key] # {}
                  THEN ExpireAt(now, CeilSeconds(windowMs))
                  ELSE ttl[key]]
     /\ batch' = [marked EXCEPT ![c] =
                    [b EXCEPT !.pc = CASE b.pc = "prune" -> "insert"
                                       [] b.pc = "insert" -> "count"
                                       [] b.pc = "count" -> "expire"
                                       [] b.pc = "expire" -> "exec",
                              !.count = IF b.pc = "count"
                                        THEN ZCard(zset[key]) ELSE b.count]]
     /\ last' = NoOp
     /\ UNCHANGED <<now, redis, initPc, fallbackStorage, run, redisUrl,
                 disconnects, req,
                 request, history, pending>>

\* exec() settles, lines 129-151, and checkRateLimit returns (100-105)
BatchDone(c, reply) ==
  LET b == batch[c]
      options == [requests |-> b.requests, window |-> b.window]
      windowMs == parseWindow(b.window)
      f == fallbackRateLimit(fallbackStorage, b.key, options, b.now)
      local == PipelineThrows(reply)
  IN /\ b.pc = "exec"
     /\ reply \in {"ok", "reject"}
     /\ fallbackStorage' = IF local THEN f.storage ELSE fallbackStorage
     /\ last' = [NoOp EXCEPT
                   !.op = "check", !.key = b.key, !.requests = b.requests,
                   !.window = b.window, !.now = b.now, !.handle = redis,
                   !.reply = reply,
                   !.path = IF local THEN "local" ELSE "redis",
                   !.result = IF local THEN f.result
                              ELSE redisResult(reply, b.count, options,
                                               b.now, windowMs)]
     /\ batch' = [batch EXCEPT ![c] = NoBatch]
     /\ UNCHANGED <<now, redis, initPc, zset, ttl, run, redisUrl,
                 disconnects, req,
                 request, history, pending>>

\* the policies of the callers whose pipelines overlap
CallersOptions == [requests : {1}, window : GoodWindows]

BatchSendCall ==
  \E c \in Callers, key \in Keys, options \in CallersOptions :
    BatchSend(c, key, options)

BatchStepCall ==
  \E c \in Callers : \E tie \in 1..(MaxHits + 1) : BatchStep(c, tie)

BatchDoneCall ==
  \E c \in Callers, reply \in {"ok", "reject"} : BatchDone(c, reply)

NextCallers ==
  \/ Tick
  \/ BatchSendCall
  \/ BatchStepCall
  \/ BatchDoneCall

SpecCallers == InitCallers /\ [][NextCallers]_vars

\* ================================================================ claims
\* the call that has just completed is a check that returned a result
Checked == last.op = "check" /\ ~last.threw
Res == last.result
WindowMsOfLast == parseWindow(last.window)
WindowStartOfLast == last.now - WindowMsOfLast
Series == run[last.key]

C2_ResultConsistent ==
  Checked =>
    /\ Res.allowed <=> (Res.totalHits <= last.requests)
    /\ Res.remaining = Max(0, last.requests - Res.totalHits)
    /\ Res.remaining >= 0
    /\ Res.resetTime = last.now + WindowMsOfLast

C2_Witness ==
  /\ Checked /\ last.handle = "client" /\ last.reply = "reject"
  /\ last.path = "local"
  /\ Res.totalHits > last.requests /\ Res.remaining = 0

Decremented == last.op = "decrement"
LocalOfLast == MapGet(fallbackStorage, last.key)

\* the hits of the key that lay inside the window of the check that follows
\* a decrement, counted before the decrement in the backend serving the check
HitsBeforeDecrement ==
  LET windowStart == last'.now - parseWindow(last'.window)
  IN IF last'.path = "local"
     THEN Len(LiveLocal(last.preLocal, windowStart))
     ELSE Cardinality(LiveZset(last.preZset, windowStart))

DecrementThenCheck ==
  /\ last.op = "decrement"
  /\ last'.op = "check" /\ ~last'.threw
  /\ last'.key = last.key

C7_DecrementRemovesLatest ==
  Decremented =>
    IF last.path = "local"
    THEN /\ zset[last.key] = last.preZset
         /\ LocalOfLast = SubSeq(last.preLocal, 1, Len(last.preLocal) - 1)
         /\ \A i \in 1..Len(last.preLocal) :
              last.preLocal[i] <= last.preLocal[Len(last.preLocal)]
    ELSE /\ LocalOfLast = last.preLocal
         /\ zset[last.key] \subseteq last.preZset
         /\ Cardinality(last.preZset \ zset[last.key]) <= 1
         /\ \A m \in last.preZset \ zset[last.key] :
              \A o \in last.preZset : o[1] <= m[1]
         /\ (last.reply = "ok" /\ last.preZset # {})
              => Cardinality(last.preZset \ zset[last.key]) = 1

\* a decrement in the shared store that took the later of two hits
C7_Witness ==
  /\ Decremented /\ last.path = "redis"
  /\ \E m \in last.preZset \ zset[last.key] :
       \E o \in zset[last.key] : o[1] < m[1]

\* C8: decrementRateLimit never throws, whatever the backend and whichever
\* store call fails (the read of the latest hit, the removal).
C8_DecrementNeverThrows == Decremented => ~last.threw

C8_Witness ==
  /\ Decremented /\ last.reply = "readFails" /\ last.preZset # {}
  /\ zset[last.key] = last.preZset /\ ~last.threw

\* exec() of the check that has just completed rejected, gave no results,
\* or gave a count entry with an error
BatchFailed == last.reply \in {"reject", "null", "countErr"}

\* C9: checkRateLimit throws only for a malformed window; with a well-formed
\* one it returns a result, and when the store call fails (exec rejects,
\* gives no results, or reports a count error) the result is that of the
\* local-memory path for the same call.
C9_CheckRejectsOnlyBadWindow ==
  last.op = "check" =>
    /\ last.threw <=> ~WindowMatch(last.window)
    /\ (~last.threw /\ last.handle = "client" /\ BatchFailed) =>
         /\ last.path = "local"
         /\ Res = fallbackRateLimit(MapSet(EmptyMap, last.key, last.preLocal),
                                    last.key,
                                    [requests |-> last.requests,
                                     window |-> last.window],
                                    last.now).result

C9_Witness ==
  /\ Checked /\ last.handle = "client" /\ last.reply = "countErr"
  /\ last.path = "local" /\ Res.totalHits = 2

WellFormedWindow(w) ==
  \E n \in 1..Len(w) :
    /\ Len(w) = n + 1
    /\ \A i \in 1..n : w[i] \in Digits
    /\ w[n + 1] \in {"s", "m", "h", "d"}

\* C11: checkRateLimit with a window string that is not one or more digits
\* followed by one of s, m, h, d ('invalid', '5', '5x', '') throws the
\* invalid-window-format error carrying that string, whatever the handle
\* is, and touches neither backend.
C11_BadWindowRejected ==
  (last.op = "check" /\ ~WellFormedWindow(last.window)) =>
    /\ last.threw
    /\ last.error = <<"Invalid window format", last.window>>
    /\ last.path = "none"
    /\ MapGet(fallbackStorage, last.key) = last.preLocal
    /\ zset[last.key] = last.preZset

\* the string '5' was refused while the handle was set and the store held
\* a hit of the key
C11_Witness ==
  /\ last.op = "check" /\ last.window = <<"5">>
  /\ last.handle = "client" /\ last.preZset # {}
  /\ last.threw /\ last.error[2] = <<"5">>

\* C12 (as stated): no insert or prune of another caller is applied to a
\* key between the prune and the count of a check of that key.
C12_AsStated == \A c \in Callers : ~batch[c].interleaved

\* C13 (as stated): when the batch of a check cannot be executed (exec
\* rejects or gives no results) or any one of its four commands (prune,
\* insert, count, expire) reports an error, checkRateLimit returns the
\* result of the local-memory path for that call.
C13_AsStated ==
  (Checked /\ last.handle = "client" /\ last.reply # "ok") =>
    /\ last.path = "local"
    /\ Res = fallbackRateLimit(MapSet(EmptyMap, last.key, last.preLocal),
                               last.key,
                               [requests |-> last.requests,
                                window |-> last.window],
                               last.now).result

\* the call that has just completed went to the store and the store failed
StoreFailed ==
  /\ last.op \in {"check", "decrement"}
  /\ last.handle = "client"
  /\ last.reply \notin {"ok", "none"}

\* C14: a failure of the store during checkRateLimit or decrementRateLimit
\* leaves the handle set, and the check or decrement that comes next is
\* sent to the store again.
C14_NoDemotion ==
  /\ [](StoreFailed => redis = "client")
  /\ [][(StoreFailed /\ last'.op \in {"check", "decrement"} /\ ~last'.threw)
         => (last'.handle = "client" /\ last'.reply # "none")]_vars

\* the read of a decrement failed on a key that holds a hit, and the
\* handle is still set
C14_Witness ==
  /\ last.op = "decrement" /\ last.reply = "readFails"
  /\ last.preZset # {} /\ last.handle = "client"
  /\ redis = "client"

\* C15: the handle changes at most once, from unset to a client, and only
\* in initializeRedis; a check, a decrement, a health check or an 'error'
\* event of the client never changes it, and once set it is never unset.
C15_HandleOneWay ==
  [][/\ redis = "client" => redis' = "client"
     /\ redis' # redis =>
          (redis = "null" /\ initPc = "importing" /\ initPc' = "connecting")
     /\ last'.op \in {"check", "decrement", "health", "errorEvent"} =>
          redis' = redis]_vars

\* an 'error' event came after the handle was set and the connection had
\* been made, and the handle is still set
C15_Witness ==
  /\ last.op = "errorEvent" /\ last.handle = "client"
  /\ initPc = "connected" /\ redis = "client"

\* the call that has just completed is a check or a decrement that returned
Served == last.op \in {"check", "decrement"} /\ ~last.threw

\* C16 (as stated): once the first connect() has failed, every check and
\* every decrement uses local memory only, and healthCheck returns false
\* without sending a probe.
C16_AsStated ==
  initPc = "failed" =>
    /\ Served => (last.path = "local" /\ last.reply = "none")
    /\ last.op = "health" => (~last.healthy /\ last.reply = "none")

\* C17 (as stated): when REDIS_URL is absent or empty no client is ever
\* created, the handle stays unset, and every check and decrement uses the
\* local-memory path.
C17_AsStated ==
  redisUrl \in {"undefined", ""} =>
    /\ redis = "null"
    /\ initPc \notin {"connecting", "connected", "failed"}
    /\ Served => (last.path = "local" /\ last.reply = "none")

\* C17 (amended): the same when REDIS_URL is absent (null or undefined);
\* initializeRedis then returns before it imports the client library.
C17_AbsentUrlLocalOnly ==
  redisUrl = "undefined" =>
    /\ redis = "null"
    /\ initPc = "skipped"
    /\ Served => (last.path = "local" /\ last.reply = "none")
    /\ last.op = "health" => (~last.healthy /\ last.reply = "none")

\* with REDIS_URL absent, a decrement took a hit out of local memory after
\* the clock had moved
C17_Witness ==
  /\ redisUrl = "undefined" /\ now > 0
  /\ last.op = "decrement" /\ last.path = "local"
  /\ last.preLocal # <<>>
  /\ Len(MapGet(fallbackStorage, last.key)) = Len(last.preLocal) - 1

\* C18 (as stated): a check made after construction and before connect()
\* has resolved is served by the local-memory path and never calls the
\* store.
C18_AsStated ==
  (Checked /\ initPc \in {"importing", "connecting"}) =>
    (last.path = "local" /\ last.reply = "none")

\* C19: healthCheck returns false without a probe when no client was ever
\* attached, true only when a client is attached and ping() resolves,
\* false when ping() rejects, and it never throws.
C19_HealthCheckResult ==
  last.op = "health" =>
    /\ ~last.threw
    /\ last.handle = "null" => (~last.healthy /\ last.reply = "none")
    /\ last.healthy => (last.handle = "client" /\ last.reply = "pong")
    /\ last.reply = "error" => ~last.healthy
    /\ (last.handle = "client" /\ last.reply = "pong") => last.healthy

\* the probe failed on an established connection and the answer was false
C19_Witness ==
  /\ last.op = "health" /\ last.handle = "client"
  /\ initPc = "connected"
  /\ last.reply = "error" /\ ~last.healthy

\* the options of the checks that parse
GoodOptions == [requests : Requests, window : GoodWindows]

\* C20: healthCheck, whatever it returns, changes neither the handle nor
\* the local histories nor the sets of the store, and every check gives
\* after it the result it would have given before it.
C20_HealthCheckObserves ==
  [][last'.op = "health" =>
       /\ UNCHANGED <<redis, initPc, fallbackStorage, zset, ttl, now>>
       /\ \A key \in Keys, options \in GoodOptions :
            /\ fallbackRateLimit(fallbackStorage', key, options, now') =
                 fallbackRateLimit(fallbackStorage, key, options, now)
            /\ \A reply \in CheckReplies :
                 LET windowMs == parseWindow(options.window)
                 IN redisRateLimit(zset'[key], ttl'[key], options, now',
                                   now' - windowMs, windowMs, reply, TRUE, 1)
                      = redisRateLimit(zset[key], ttl[key], options, now,
                                       now - windowMs, windowMs, reply,
                                       TRUE, 1)]_vars

\* a health check whose probe failed while both backends held a hit of the
\* key
C20_Witness ==
  /\ last.op = "health" /\ last.reply = "error" /\ ~last.healthy
  /\ redis = "client"
  /\ zset["a"] # {} /\ MapGet(fallbackStorage, "a") # <<>>

\* C21: the read-filter-append-write of a local check is one step with
\* respect to the other calls: whatever the order in which concurrent
\* checks of a key reach local memory, each finds the hits the others have
\* written, adds exactly one, and returns the new length, so n checks
\* inside one window leave n hits and return 1..n.
C21_LocalCheckAtomic ==
  [][(last'.op = "check" /\ last'.path = "local") =>
       LET key == last'.key
           windowStart == last'.now - parseWindow(last'.window)
           before == MapGet(fallbackStorage, key)
           after == MapGet(fallbackStorage', key)
       IN /\ after = Append(LiveLocal(before, windowStart), last'.now)
          /\ last'.result.totalHits = Len(after)
          /\ (\A i \in 1..Len(before) : before[i] > windowStart)
               => last'.result.totalHits = Len(before) + 1]_vars

\* two checks overlapped: the one that read the clock first reached local
\* memory last, found the hit of the other and returned 2
C21_Witness ==
  /\ Checked /\ last.path = "local" /\ Res.totalHits = 2
  /\ Len(MapGet(fallbackStorage, last.key)) = 2
  /\ fallbackStorage[last.key][1] > fallbackStorage[last.key][2]

\* the hits of the key that the backend serving the last check held inside
\* the window of that check, before the check
LiveBefore ==
  IF last.path = "local"
  THEN Len(LiveLocal(last.preLocal, WindowStartOfLast))
  ELSE Cardinality(LiveZset(last.preZset, WindowStartOfLast))

RECURSIVE DecimalValue(_, _)
DecimalValue(ds, acc) ==
  IF ds = <<>> THEN acc
  ELSE DecimalValue(Tail(ds), 10 * acc + DigitVal(Head(ds)))

\* the milliseconds of one unit
Multiplier(u) ==
  CASE u = "s" -> 1000 [] u = "m" -> 60000
    [] u = "h" -> 3600000 [] u = "d" -> 86400000

Parsed == last.op = "parse" /\ ~last.threw

\* C23: parseWindow maps '<n><unit>' to n times the multiplier of the unit
\* (s 1000, m 60000, h 3600000, d 86400000): '30s' gives 30000, '5m'
\* 300000, '1h' 3600000 and '7d' 604800000; it changes no field of the
\* engine and its value depends on the string alone.
C23_ParseWindowValue ==
  /\ [](Parsed =>
         /\ last.windowMs =
              DecimalValue(SubSeq(last.window, 1, Len(last.window) - 1), 0)
                * Multiplier(last.window[Len(last.window)])
         /\ last.window = <<"3", "0", "s">> => last.windowMs = 30000
         /\ last.window = <<"5", "m">> => last.windowMs = 300000
         /\ last.window = <<"1", "h">> => last.windowMs = 3600000
         /\ last.window = <<"7", "d">> => last.windowMs = 604800000)
  /\ [][last'.op = "parse" =>
          /\ UNCHANGED <<now, redis, initPc, fallbackStorage, zset, ttl,
                         redisUrl,
                 disconnects, req,
                 request, history, pending>>
          /\ last'.window = last.window]_vars

\* '7d' was parsed
C23_Witness ==
  Parsed /\ last.window = <<"7", "d">> /\ last.windowMs = 604800000

\* C24 (as stated): every string parseWindow accepts gives a strictly
\* positive number of milliseconds, and '0s' is refused with the
\* invalid-window-format error.
C24_AsStated ==
  last.op = "parse" =>
    /\ ~last.threw => last.windowMs > 0
    /\ last.window = <<"0", "s">> =>
         (last.threw /\ last.error = <<"Invalid window format", last.window>>)

\* C25 (as stated): shutdown disconnects the client if there is one and
\* empties the local-memory map; a second shutdown does not disconnect
\* again, so that the connection is released exactly once.
C25_AsStated ==
  /\ disconnects <= 1
  /\ last.op = "destroy" => fallbackStorage = EmptyMap

\* a request passes the guard in this step
Guarded(r) == req[r].pc = "new" /\ req'[r].pc # "new"

\* C26: canActivate returns true without calling checkRateLimit when the
\* route has no metadata; otherwise it calls checkRateLimit once, and when
\* the call gives a result it returns true if and only if the result is
\* allowed and throws the 429 exception if and only if it is not. No
\* request has checkRateLimit called twice for it.
C26_GuardDecision ==
  /\ [](\A r \in Reqs :
         /\ req[r].checks <= 1
         /\ req[r].pc = "handling" => req[r].outcome = "true"
         /\ req[r].pc = "denied" => req[r].outcome # "true")
  /\ [][\A r \in Reqs : Guarded(r) =>
          IF ~req[r].options.present
          THEN /\ req'[r].outcome = "true"
               /\ req'[r].checks = 0
               /\ UNCHANGED <<fallbackStorage, zset, ttl, last, redis>>
          ELSE /\ req'[r].checks = 1
               /\ last'.op = "check"
               /\ ~last'.threw =>
                    /\ req'[r].outcome = "true" <=> last'.result.allowed
                    /\ req'[r].outcome = "429" <=> ~last'.result.allowed]_vars

\* the guard has thrown 429 for a request whose check was denied, after a
\* request that it let pass
C26_Witness ==
  /\ req["r1"].pc # "new" /\ req["r1"].outcome = "true"
  /\ req["r1"].checks = 1
  /\ req["r2"].pc = "denied" /\ req["r2"].outcome = "429"
  /\ req["r2"].checks = 1
  /\ last.op = "check" /\ ~last.threw /\ ~last.result.allowed

\* C27: when checkRateLimit rejects (a malformed window), canActivate
\* returns true and the request goes on to its handler; when the check
\* gives a denied result the guard throws 429 and the request does not
\* reach its handler.
C27_GuardFailsOpen ==
  [][\A r \in Reqs : (Guarded(r) /\ req[r].options.present) =>
       /\ last'.threw =>
            (req'[r].outcome = "true" /\ req'[r].pc = "handling")
       /\ (~last'.threw /\ ~last'.result.allowed) =>
            (req'[r].outcome = "429" /\ req'[r].pc = "denied")]_vars

\* the check of a request has rejected for its window and the request is
\* with its handler
C27_Witness ==
  /\ last.op = "check" /\ last.threw
  /\ last.error = InvalidWindowError(<<"5", "x">>)
  /\ \E r \in Reqs :
       /\ req[r].pc = "handling" /\ req[r].outcome = "true"
       /\ req[r].checks = 1 /\ req[r].hits = 0

\* C28 (as stated): the interceptor decrements at most once for a request,
\* and never for a request of a route without metadata or with both skip
\* flags false.
C28_AsStated ==
  \A r \in Reqs :
    /\ req[r].decrements <= 1
    /\ (\/ ~req[r].options.present
        \/ /\ ~req[r].options.skipSuccessfulRequests
           /\ ~req[r].options.skipFailedRequests) => req[r].decrements = 0

\* the request has ended with a status its route's skip flags exempt
Exempt(r) ==
  /\ req[r].pc = "done"
  /\ req[r].options.present
  /\ shouldSkip(req[r].options, req[r].status)

\* C29 (as stated): when no request is with its handler, the hits a key
\* holds are those recorded by the checks of the requests that have not
\* ended with an exempt status; a request that has ended with one has left
\* nothing behind and taken nothing away.
C29_AsStated ==
  (\A r \in Reqs : req[r].pc # "handling") =>
    \A key \in Keys :
      HitCount(key) =
        SumOver(Reqs, [r \in Reqs |-> IF Exempt(r) THEN 0 ELSE req[r].hits])

\* C30: the local-memory map never maps a key to an empty history, cleanup
\* of the map for any window start leaves no empty history either, a local
\* decrement that removes the last hit of a key deletes the key, and a
\* local decrement on a key without history leaves the map as it is.
C30_NoEmptyHistory ==
  /\ [](/\ \A k \in DOMAIN fallbackStorage : Len(fallbackStorage[k]) > 0
        /\ \A windowStart \in {now - 2 * Step, now - Step, now} :
             LET cleaned == cleanupFallbackStorage(fallbackStorage, windowStart)
             IN \A k \in DOMAIN fallbackStorage :
                  LET live == LiveLocal(fallbackStorage[k], windowStart)
                  IN IF live = <<>> THEN k \notin DOMAIN cleaned
                     ELSE k \in DOMAIN cleaned /\ cleaned[k] = live)
  /\ [][(last'.op = "decrement" /\ last'.path = "local") =>
          LET key == last'.key IN
          /\ Len(MapGet(fallbackStorage, key)) = 1
               => key \notin DOMAIN fallbackStorage'
          /\ key \notin DOMAIN fallbackStorage
               => fallbackStorage' = fallbackStorage]_vars

\* a local decrement has removed the only hit of the key and with it the
\* key
C30_Witness ==
  /\ last.op = "decrement" /\ last.path = "local"
  /\ Len(last.preLocal) = 1
  /\ last.key \notin DOMAIN fallbackStorage

\* C31 (as stated): a check changes the history of another key only when
\* the map holds more than the threshold number of keys, and then it takes
\* from the other key no hit that is still inside the window that key was
\* last checked with.
C31_AsStated ==
  [][(last'.op = "check" /\ last'.path = "local") =>
       \A j \in AllKeys \ {last'.key} :
         /\ MapGet(fallbackStorage', j) # MapGet(fallbackStorage, j)
              => Cardinality(DOMAIN fallbackStorage \cup {last'.key})
                   > CleanupThreshold
         /\ run[j].n > 0 =>
              LiveLocal(MapGet(fallbackStorage', j), now - run[j].windowMs)
                = LiveLocal(MapGet(fallbackStorage, j),
                            now - run[j].windowMs)]_vars

StatedKey(r) ==
  CASE r.keyGenerator = "byIp" -> <<"custom", r.ip>>
    [] r.keyGenerator = "byPath" -> <<"custom", r.path>>
    [] OTHER ->
         <<"rate_limit",
           CASE r.ip # "" -> r.ip
             [] r.ip = "" /\ r.remoteAddress # "" -> r.remoteAddress
             [] OTHER -> "unknown",
           CASE r.routePath # "" -> r.routePath
             [] r.routePath = "" /\ r.path # "nonstring" -> r.path
             [] OTHER -> "/">>

\* C33: the key the interceptor makes for a request equals the key the
\* guard made for it, and both are the result of the keyGenerator when
\* there is one, otherwise rate_limit, the ip (request.ip, else the remote
\* address of the socket, else unknown) and the path (that of the route,
\* else request.path, else /).
C33_SameKey ==
  /\ request.guardKey # <<>> => request.guardKey = StatedKey(request)
  /\ request.interceptorKey # <<>> =>
       /\ request.interceptorKey = request.guardKey
       /\ request.interceptorKey = StatedKey(request)

\* both keys have been made for a request without ip and without route
\* whose path is not a string
C33_Witness ==
  /\ request.ip = "" /\ request.remoteAddress = ""
  /\ request.routePath = "" /\ request.path = "nonstring"
  /\ request.keyGenerator = "none"
  /\ request.guardKey = <<"rate_limit", "unknown", "/">>
  /\ request.interceptorKey = <<"rate_limit", "unknown", "/">>

\* the checks of the history that were made with this policy on this key,
\* were allowed, and fall in the interval of length windowMs from start
AdmittedIn(key, requests, windowMs, start) ==
  {i \in 1..Len(history) :
     /\ history[i].key = key
     /\ history[i].requests = requests
     /\ history[i].windowMs = windowMs
     /\ history[i].result.allowed
     /\ start <= history[i].now
     /\ history[i].now < start + windowMs}

\* C34 (as stated): for every key, policy and interval of the length of
\* the policy's window, the checks made with the policy in the interval
\* that were allowed are no more than the limit.
C34_AsStated ==
  \A key \in Keys, options \in HistoryOptions :
    \A start \in {t * Step : t \in 0..MaxTicks} :
      Cardinality(AdmittedIn(key, options.requests,
                             parseWindow(options.window), start))
        <= options.requests

\* C39 (as stated): the check made last returns as totalHits the number
\* of checks made on its key, itself included, in (now - W, now].
C39_AsStated ==
  Len(history) > 0 =>
    LET h == history[Len(history)] IN
    h.result.totalHits =
      Cardinality({i \in 1..Len(history) :
                     /\ history[i].key = h.key
                     /\ history[i].now > h.now - h.windowMs})

\* every hit either backend held for the key of the last check, before the
\* check, was recorded by a check whose resetTime under the window of the
\* last check has been reached
ResetTimesPassed ==
  /\ \A i \in 1..Len(last.preLocal) :
       last.preLocal[i] + WindowMsOfLast <= last.now
  /\ \A m \in last.preZset : m[1] + WindowMsOfLast <= last.now

C38_RejectedCallChangesNothing ==
  [][(last'.op = "check" /\ last'.threw) =>
       UNCHANGED <<fallbackStorage, zset, ttl, redis>>]_vars

\* a call rejected for its window, on a key that has no entry in the local
\* map, by an engine that holds a client and a hit in the store
C38_Witness ==
  /\ last.op = "check" /\ last.threw
  /\ last.handle # "null" /\ redis # "null"
  /\ last.key \notin DOMAIN fallbackStorage
  /\ \E k \in AllKeys : zset[k] # {}

\* C36 (as stated): two decrements of a key that held at least two hits
\* when each of them read it have removed one hit each, and not the same
\* one, however their reads and removals were interleaved.
C36_AsStated ==
  \A c, d \in Callers :
    (/\ c # d
     /\ pending[c].pc = "done" /\ pending[d].pc = "done"
     /\ pending[c].key = pending[d].key
     /\ pending[c].held >= 2 /\ pending[d].held >= 2)
      => (pending[c].removed = 1 /\ pending[d].removed = 1)

\* the hits of time t in a local history and in a set of the store
LocalAt(timestamps, t) == Len(SelectSeq(timestamps, LAMBDA x : x = t))
ZsetAt(z, t) == Cardinality({m \in z : m[1] = t})

\* the hits a step adds to the local history of a key, and to its set
AddedLocal(k) ==
  LocalAt(MapGet(fallbackStorage', k), now) - LocalAt(MapGet(fallbackStorage, k), now)
AddedStore(k) == ZsetAt(zset'[k], now) - ZsetAt(zset[k], now)

\* the hits a step takes out of the two histories of a key
Removed(k) ==
  (Len(MapGet(fallbackStorage, k)) + Cardinality(zset[k]))
    - (Len(MapGet(fallbackStorage', k)) + Cardinality(zset'[k]))

\* the step leaves the histories of the keys other than k as they were
OthersKept(k) ==
  \A j \in AllKeys \ {k} :
    /\ MapGet(fallbackStorage', j) = MapGet(fallbackStorage, j)
    /\ zset'[j] = zset[j]

\* the map does not grow beyond the compaction threshold by a call on k
BelowThreshold(k) ==
  Cardinality(DOMAIN fallbackStorage \cup {k}) <= CleanupThreshold

====
